---- MODULE Spec2Model ----
(***************************************************************************)
(* The retrieval-and-refusal pipeline of the Existentialism corpus agent:  *)
(* the gates and helpers of rag.py and the "Ask" handler of app.py.        *)
(*                                                                         *)
(* Text is modelled at character level: a Python str is a sequence of      *)
(* one-character strings, so lower(), strip(), len(), the regular          *)
(* expression tables and the substring test `t in ctx` are computed as the *)
(* code computes them.  A similarity score is an integer number of         *)
(* thousandths (0.25 is 250).                                              *)
(***************************************************************************)
EXTENDS Integers, Sequences, FiniteSets, TLC

(***************************************************************************)
(* Characters and the str methods the code uses.                           *)
(***************************************************************************)
LOWERCASE ==
    << "a","b","c","d","e","f","g","h","i","j","k","l","m","n","o","p","q","r","s","t","u","v","w",
       "x","y","z" >>

UPPERCASE ==
    << "A","B","C","D","E","F","G","H","I","J","K","L","M","N","O","P","Q","R","S","T","U","V","W",
       "X","Y","Z" >>

DIGITS ==
    << "0","1","2","3","4","5","6","7","8","9" >>

\* The characters str.strip() removes and str.split() splits at, among the ASCII
\* ones: space, \t, \n, \r, \x0b, \x0c and the separators \x1c to \x1f.  (The
\* Unicode spaces, \x85 and \xa0 among them, are outside the modelled alphabet.)
WHITESPACE ==
    { " ", "\t", "\n", "\r", "", "\f", "", "", "", "" }

Range(s) == { s[i] : i \in DOMAIN s }

\* [a-zA-Z] of _keywords' token pattern.
ALPHA == Range(LOWERCASE) \cup Range(UPPERCASE)

IsAlpha(c) == c \in ALPHA

\* \w of the re module, on the ASCII characters: the two sides of a \b.
WORD_CHARS == ALPHA \cup Range(DIGITS) \cup { "_" }

IsWordChar(c) == c \in WORD_CHARS

\* str.lower(), character by character.
LOWER_OF == [c \in Range(UPPERCASE) |-> LOWERCASE[CHOOSE i \in 1..26 : UPPERCASE[i] = c]]

UPPER == Range(UPPERCASE)

LowerChar(c) == IF c \in UPPER THEN LOWER_OF[c] ELSE c

lower(s) == [i \in 1..Len(s) |-> LowerChar(s[i])] \o << >>

\* str.strip(): leading and trailing whitespace removed.
RECURSIVE lstrip(_)
lstrip(s) == IF s # << >> /\ Head(s) \in WHITESPACE THEN lstrip(Tail(s)) ELSE s

RECURSIVE rstrip(_)
rstrip(s) ==
    IF s # << >> /\ s[Len(s)] \in WHITESPACE THEN rstrip(SubSeq(s, 1, Len(s) - 1)) ELSE s

strip(s) == rstrip(lstrip(s))

\* sep.join(parts).
RECURSIVE join(_, _)
join(sep, parts) ==
    IF parts = << >> THEN << >>
    ELSE IF Len(parts) = 1 THEN parts[1]
    ELSE LET half == Len(parts) \div 2
         IN  join(sep, SubSeq(parts, 1, half)) \o sep
                 \o join(sep, SubSeq(parts, half + 1, Len(parts)))

\* `t in s` for two strings.
IsSubstring(t, s) ==
    \E i \in 1..(Len(s) - Len(t) + 1) : \A j \in 1..Len(t) : s[i + j - 1] = t[j]

\* str(n) for a non-negative integer.
RECURSIVE str(_)
str(n) == IF n < 10 THEN << DIGITS[n + 1] >> ELSE str(n \div 10) \o << DIGITS[(n % 10) + 1] >>

(***************************************************************************)
(* Regular expressions.  Every pattern of the two tables has the shape     *)
(* \b...\b around a finite language, so a pattern is the set of strings    *)
(* between its two \b; re.search succeeds when one of them occurs with a   *)
(* word boundary on each side.                                             *)
(***************************************************************************)
\* \b at the gap before s[i] (i = Len(s) + 1: the end of the string).
WordBoundary(s, i) ==
    (i > 1 /\ IsWordChar(s[i - 1])) # (i <= Len(s) /\ IsWordChar(s[i]))

OccursAt(lit, s, i) ==
    /\ i + Len(lit) - 1 <= Len(s)
    /\ \A j \in 1..Len(lit) : s[i + j - 1] = lit[j]

re_search(pattern, s) ==
    \E lit \in pattern : \E i \in 1..Len(s) :
        OccursAt(lit, s, i) /\ WordBoundary(s, i) /\ WordBoundary(s, i + Len(lit))

(***************************************************************************)
(* rag.py: the refusal text and the topic tables.                          *)
(***************************************************************************)
REFUSAL_TEXT ==
    << "I"," ","c","a","n","n","o","t"," ","a","n","s","w","e","r"," ","t","h","i","s"," ","q","u",
       "e","s","t","i","o","n"," ","w","i","t","h","i","n"," ","t","h","e"," ","c","o","n","s","t",
       "r","a","i","n","t","s"," ","o","f"," ","t","h","i","s"," ","a","g","e","n","t","."," ","T",
       "h","e"," ","a","n","s","w","e","r"," ","w","o","u","l","d"," ","r","e","q","u","i","r","e",
       " ","c","o","n","c","e","p","t","s"," ","o","r"," ","f","r","a","m","e","w","o","r","k","s",
       " ","n","o","t"," ","c","o","n","t","a","i","n","e","d"," ","i","n"," ","t","h","e"," ","p",
       "r","o","v","i","d","e","d"," ","c","o","r","p","u","s","." >>

ALLOWED_TOPIC_PATTERNS ==
    <<
      \* \bexistential(ism|ist)?\b
      { << "e","x","i","s","t","e","n","t","i","a","l" >>,
        << "e","x","i","s","t","e","n","t","i","a","l","i","s","m" >>,
        << "e","x","i","s","t","e","n","t","i","a","l","i","s","t" >> },
      \* \bsartre\b
      { << "s","a","r","t","r","e" >> },
      \* \bjean[- ]paul\b
      { << "j","e","a","n","-","p","a","u","l" >>,
        << "j","e","a","n"," ","p","a","u","l" >> },
      \* \bbeauvoir\b
      { << "b","e","a","u","v","o","i","r" >> },
      \* \bsimone\b
      { << "s","i","m","o","n","e" >> },
      \* \bcamus\b
      { << "c","a","m","u","s" >> },
      \* \bheidegger\b
      { << "h","e","i","d","e","g","g","e","r" >> },
      \* \bhusserl\b
      { << "h","u","s","s","e","r","l" >> },
      \* \bmerleau[- ]ponty\b
      { << "m","e","r","l","e","a","u","-","p","o","n","t","y" >>,
        << "m","e","r","l","e","a","u"," ","p","o","n","t","y" >> },
      \* \bjaspers\b
      { << "j","a","s","p","e","r","s" >> },
      \* \bexistence\b
      { << "e","x","i","s","t","e","n","c","e" >> },
      \* \bexist\b
      { << "e","x","i","s","t" >> },
      \* \bto exist\b
      { << "t","o"," ","e","x","i","s","t" >> },
      \* \bbeing\b
      { << "b","e","i","n","g" >> },
      \* \bessence\b
      { << "e","s","s","e","n","c","e" >> },
      \* \bbad faith\b
      { << "b","a","d"," ","f","a","i","t","h" >> },
      \* \bmauvaise foi\b
      { << "m","a","u","v","a","i","s","e"," ","f","o","i" >> },
      \* \bexistence precedes essence\b
      { << "e","x","i","s","t","e","n","c","e"," ","p","r","e","c","e","d","e","s"," ","e","s","s",
           "e","n","c","e" >> },
      \* \bfreedom\b
      { << "f","r","e","e","d","o","m" >> },
      \* \bresponsibilit(y|ies)\b
      { << "r","e","s","p","o","n","s","i","b","i","l","i","t","y" >>,
        << "r","e","s","p","o","n","s","i","b","i","l","i","t","i","e","s" >> },
      \* \bauthentic(ity)?\b
      { << "a","u","t","h","e","n","t","i","c" >>,
        << "a","u","t","h","e","n","t","i","c","i","t","y" >> },
      \* \banguish\b
      { << "a","n","g","u","i","s","h" >> },
      \* \babandonment\b
      { << "a","b","a","n","d","o","n","m","e","n","t" >> },
      \* \bfor[- ]itself\b
      { << "f","o","r","-","i","t","s","e","l","f" >>,
        << "f","o","r"," ","i","t","s","e","l","f" >> },
      \* \bin[- ]itself\b
      { << "i","n","-","i","t","s","e","l","f" >>,
        << "i","n"," ","i","t","s","e","l","f" >> }
    >>

BANNED_QUERY_PATTERNS ==
    <<
      \* \bdepression\b
      { << "d","e","p","r","e","s","s","i","o","n" >> },
      \* \banxiety\b
      { << "a","n","x","i","e","t","y" >> },
      \* \btherapy\b
      { << "t","h","e","r","a","p","y" >> },
      \* \btreat(ment)?\b
      { << "t","r","e","a","t" >>,
        << "t","r","e","a","t","m","e","n","t" >> },
      \* \bpsychiatr(y|ic)\b
      { << "p","s","y","c","h","i","a","t","r","y" >>,
        << "p","s","y","c","h","i","a","t","r","i","c" >> },
      \* \bpsycholog(y|ical)\b
      { << "p","s","y","c","h","o","l","o","g","y" >>,
        << "p","s","y","c","h","o","l","o","g","i","c","a","l" >> },
      \* \bdiagnos(e|is)\b
      { << "d","i","a","g","n","o","s","e" >>,
        << "d","i","a","g","n","o","s","i","s" >> },
      \* \bcope\b
      { << "c","o","p","e" >> },
      \* \bheal(ing)?\b
      { << "h","e","a","l" >>,
        << "h","e","a","l","i","n","g" >> },
      \* \bwell[- ]?being\b
      { << "w","e","l","l","-","b","e","i","n","g" >>,
        << "w","e","l","l"," ","b","e","i","n","g" >>,
        << "w","e","l","l","b","e","i","n","g" >> },
      \* \bwhat should i do\b
      { << "w","h","a","t"," ","s","h","o","u","l","d"," ","i"," ","d","o" >> },
      \* \bshould i\b
      { << "s","h","o","u","l","d"," ","i" >> },
      \* \bhelp me\b
      { << "h","e","l","p"," ","m","e" >> },
      \* \bovercome\b
      { << "o","v","e","r","c","o","m","e" >> },
      \* \bsteps\b
      { << "s","t","e","p","s" >> },
      \* \badvice\b
      { << "a","d","v","i","c","e" >> },
      \* \bcompare\b
      { << "c","o","m","p","a","r","e" >> },
      \* \bvs\b
      { << "v","s" >> },
      \* \bversus\b
      { << "v","e","r","s","u","s" >> },
      \* \bstoic(ism)?\b
      { << "s","t","o","i","c" >>,
        << "s","t","o","i","c","i","s","m" >> },
      \* \bbuddh(ism|ist)\b
      { << "b","u","d","d","h","i","s","m" >>,
        << "b","u","d","d","h","i","s","t" >> },
      \* \bchristianity\b
      { << "c","h","r","i","s","t","i","a","n","i","t","y" >> },
      \* \bislam\b
      { << "i","s","l","a","m" >> },
      \* \bhindu(ism)?\b
      { << "h","i","n","d","u" >>,
        << "h","i","n","d","u","i","s","m" >> },
      \* \bai\b
      { << "a","i" >> },
      \* \bartificial intelligence\b
      { << "a","r","t","i","f","i","c","i","a","l"," ","i","n","t","e","l","l","i","g","e","n","c",
           "e" >> },
      \* \bsocial media\b
      { << "s","o","c","i","a","l"," ","m","e","d","i","a" >> },
      \* \bclimate change\b
      { << "c","l","i","m","a","t","e"," ","c","h","a","n","g","e" >> },
      \* \btwitter\b
      { << "t","w","i","t","t","e","r" >> },
      \* \btiktok\b
      { << "t","i","k","t","o","k" >> },
      \* \binstagram\b
      { << "i","n","s","t","a","g","r","a","m" >> },
      \* \bchatgpt\b
      { << "c","h","a","t","g","p","t" >> }
    >>

STOPWORDS ==
    { << "t","h","e" >>,
      << "a" >>,
      << "a","n" >>,
      << "a","n","d" >>,
      << "o","r" >>,
      << "t","o" >>,
      << "o","f" >>,
      << "i","n" >>,
      << "o","n" >>,
      << "f","o","r" >>,
      << "w","i","t","h" >>,
      << "i","s" >>,
      << "a","r","e" >>,
      << "w","a","s" >>,
      << "w","e","r","e" >>,
      << "w","h","a","t" >>,
      << "w","h","y" >>,
      << "h","o","w" >>,
      << "d","o","e","s" >>,
      << "d","o" >>,
      << "d","i","d" >>,
      << "s","h","o","u","l","d" >>,
      << "c","a","n" >>,
      << "c","o","u","l","d" >>,
      << "w","o","u","l","d" >>,
      << "i" >>,
      << "y","o","u" >>,
      << "w","e" >>,
      << "m","y" >>,
      << "y","o","u","r" >>,
      << "o","u","r" >>,
      << "m","e" >>,
      << "i","t" >>,
      << "t","h","i","s" >>,
      << "t","h","a","t" >>,
      << "t","h","e","s","e" >>,
      << "t","h","o","s","e" >> }

in_allowed_domain(query) ==
    \E q \in { lower(query) } :
        \E k \in DOMAIN ALLOWED_TOPIC_PATTERNS : re_search(ALLOWED_TOPIC_PATTERNS[k], q)

has_banned_terms(query) ==
    \E q \in { lower(query) } :
        \E k \in DOMAIN BANNED_QUERY_PATTERNS : re_search(BANNED_QUERY_PATTERNS[k], q)

\* The end of the run of letters that starts at s[i].
RECURSIVE RunEnd(_, _)
RunEnd(s, i) == IF i + 1 <= Len(s) /\ IsAlpha(s[i + 1]) THEN RunEnd(s, i + 1) ELSE i

\* re.findall(r"[a-zA-Z]{3,}", s) from position i: the greedy match takes a whole
\* run of letters, and a run shorter than 3 yields nothing.
RECURSIVE findall_alpha3(_, _)
findall_alpha3(s, i) ==
    IF i > Len(s) THEN << >>
    ELSE IF ~IsAlpha(s[i]) THEN findall_alpha3(s, i + 1)
    ELSE LET j == RunEnd(s, i)
         IN  (IF j - i + 1 >= 3 THEN << SubSeq(s, i, j) >> ELSE << >>)
                 \o findall_alpha3(s, j + 1)

_keywords(text) ==
    SelectSeq(findall_alpha3(lower(text), 1), LAMBDA t : t \notin STOPWORDS)

\* An optional argument: None is `passages=None`, Some(p) a list that was passed.
None == [some |-> FALSE, val |-> << >>]
Some(p) == [some |-> TRUE, val |-> p]

\* (q_terms and ctx are bound by \E over a singleton, so each is computed once.)
query_supported_by_context(query, passages) ==
    \E q_terms \in { Range(_keywords(query)) } :
    \E ctx \in { lower(join(<< " " >>, [i \in 1..Len(passages) |-> passages[i].chunk])) } :
        LET hits == Cardinality({ t \in q_terms : IsSubstring(t, ctx) })
            required == IF Cardinality(q_terms) <= 4 THEN 1 ELSE 2
        IN  IF q_terms = {} THEN FALSE ELSE hits >= required

\* Mutant: Gate C (the allowed-domain test) left out.
should_refuse_query_no_domain(query, passages) ==
    IF has_banned_terms(query) THEN TRUE
    ELSE IF passages.some /\ ~query_supported_by_context(query, passages.val) THEN TRUE
    ELSE FALSE

\* Mutant: with passages given, the support verdict is returned before Gate A.
should_refuse_query_support_first(query, passages) ==
    IF passages.some /\ query_supported_by_context(query, passages.val) THEN FALSE
    ELSE IF has_banned_terms(query) THEN TRUE
    ELSE IF passages.some THEN TRUE
    ELSE IF ~in_allowed_domain(query) THEN TRUE
    ELSE FALSE

should_refuse_query(query, passages) ==
    IF has_banned_terms(query) THEN TRUE
    ELSE IF passages.some /\ ~query_supported_by_context(query, passages.val) THEN TRUE
    ELSE IF ~in_allowed_domain(query) THEN TRUE
    ELSE FALSE

\* What one call of should_refuse_query adds to the call log: itself, and the
\* support verifier when it reaches Gate B with a list of passages.
should_refuse_query_calls(query, passages) ==
    << "should_refuse_query" >>
        \o (IF passages.some /\ ~has_banned_terms(query)
            THEN << "query_supported_by_context" >> ELSE << >>)

(***************************************************************************)
(* rag.py: the RAG settings.  MIN_SCORE is 0.25, in thousandths.           *)
(***************************************************************************)
TOP_K == 8
MIN_SCORE == 250
MAX_CONTEXT_CHARS == 3000

\* ingest.py: the length of a chunk and the overlap of two successive chunks.
CHUNK_SIZE == 800
CHUNK_OVERLAP == 150

(***************************************************************************)
(* ingest.py: the index on disk.  A data directory is the list of its PDFs *)
(* in the order DATA_DIR.glob yields them, a PDF its name and the text     *)
(* extract_text gives for each of its pages.  build_corpus makes the list  *)
(* of chunks main writes to chunks.json, entry i of the index being        *)
(* chunks[i].                                                              *)
(***************************************************************************)
SARTRE_PDF ==
    << "s","a","r","t","r","e",".","p","d","f" >>

CAMUS_PDF ==
    << "c","a","m","u","s",".","p","d","f" >>

PHRASE_ABANDONMENT ==
    << "M","a","n"," ","i","s"," ","c","o","n","d","e","m","n","e","d"," ","t","o"," ","b","e"," ",
       "f","r","e","e",";"," ","e","x","i","s","t","e","n","c","e"," ","p","r","e","c","e","d","e",
       "s"," ","e","s","s","e","n","c","e",","," ","a","n","d"," ","a","b","a","n","d","o","n","m",
       "e","n","t"," ","f","o","l","l","o","w","s","."," " >>

PHRASE_BAD_FAITH ==
    << "B","a","d"," ","f","a","i","t","h"," ","i","s"," ","a"," ","l","i","e"," ","t","o"," ","o",
       "n","e","s","e","l","f"," ","a","b","o","u","t"," ","t","h","e"," ","b","u","r","d","e","n",
       " ","o","f"," ","f","r","e","e","d","o","m","."," " >>

PHRASE_ABSURD ==
    << "T","h","e"," ","a","b","s","u","r","d"," ","i","s"," ","b","o","r","n"," ","o","f"," ","t",
       "h","e"," ","s","i","l","e","n","c","e"," ","o","f"," ","t","h","e"," ","w","o","r","l","d",
       "."," " >>

\* page.extract_text() for a page that repeats a sentence over n characters.
Fill(phrase, n) == [i \in 1..n |-> phrase[((i - 1) % Len(phrase)) + 1]] \o << >>

\* page.extract_text() or "" for a page with no text layer.
BLANK_PAGE == << >>

RECURSIVE WordEnd(_, _)
WordEnd(s, i) == IF i <= Len(s) /\ s[i] \notin WHITESPACE THEN WordEnd(s, i + 1) ELSE i

\* text.split(): the words between runs of whitespace, each from the index where
\* it starts to the next whitespace or the end.
split(s) ==
    LET starts == SelectSeq([i \in 1..Len(s) |-> i],
                            LAMBDA i : s[i] \notin WHITESPACE
                                           /\ (i = 1 \/ s[i - 1] \in WHITESPACE))
    IN  [k \in 1..Len(starts) |-> SubSeq(s, starts[k], WordEnd(s, starts[k]) - 1)] \o << >>

\* The pages of read_pdf_text from page i on (pages count from 1).
RECURSIVE ReadPages(_, _)
ReadPages(pdf, i) ==
    IF i > Len(pdf.pages) THEN << >>
    ELSE LET text == join(<< " " >>, split(pdf.pages[i]))
         IN  (IF strip(text) # << >>
              THEN << [text |-> text, page |-> i, source |-> pdf.name] >>
              ELSE << >>) \o ReadPages(pdf, i + 1)

read_pdf_text(pdf) == ReadPages(pdf, 1)

\* The loop of chunk_text from offset `start` (offsets count from 0).
RECURSIVE ChunksFrom(_, _, _, _)
ChunksFrom(text, start, chunk_size, overlap) ==
    IF ~(start < Len(text)) THEN << >>
    ELSE LET end == IF start + chunk_size < Len(text) THEN start + chunk_size
                    ELSE Len(text)
         IN  << SubSeq(text, start + 1, end) >>
                 \o (IF end = Len(text) THEN << >>
                     ELSE ChunksFrom(text, end - overlap, chunk_size, overlap))

chunk_text(text, chunk_size, overlap) == ChunksFrom(text, 0, chunk_size, overlap)

\* The records build_corpus appends for one page.
PageRecords(page) ==
    LET parts == chunk_text(page.text, CHUNK_SIZE, CHUNK_OVERLAP)
    IN  [k \in 1..Len(parts) |->
            [chunk |-> parts[k], page |-> page.page, source |-> page.source]] \o << >>

RECURSIVE Flatten(_)
Flatten(lists) == IF lists = << >> THEN << >> ELSE Head(lists) \o Flatten(Tail(lists))

build_corpus(data_dir) ==
    Flatten([f \in 1..Len(data_dir) |->
                LET pages == read_pdf_text(data_dir[f])
                IN  Flatten([k \in 1..Len(pages) |-> PageRecords(pages[k])] \o << >>)]
            \o << >>)

\* camus.pdf: a page longer than CHUNK_SIZE, cut in two overlapping chunks, and a
\* short one.  sartre.pdf: nine pages without text, four pages whose snippets
\* have 750 characters, and two short pages, the last ending in a space.
DATA_ESSAYS ==
    << [name  |-> CAMUS_PDF,
        pages |-> << BLANK_PAGE, << "\n" >>, Fill(PHRASE_ABSURD, 950),
                     Fill(PHRASE_ABSURD, 60) >>],
       [name  |-> SARTRE_PDF,
        pages |-> [i \in 1..9 |-> BLANK_PAGE]
                      \o << Fill(PHRASE_ABANDONMENT, 732), Fill(PHRASE_BAD_FAITH, 732),
                            Fill(PHRASE_ABANDONMENT, 732), Fill(PHRASE_BAD_FAITH, 732),
                            Fill(PHRASE_BAD_FAITH, 55), Fill(PHRASE_ABANDONMENT, 82) >>] >>

DATA_NOTES ==
    << [name  |-> CAMUS_PDF,
        pages |-> << Fill(PHRASE_ABSURD, 90) >>],
       [name  |-> SARTRE_PDF,
        pages |-> << << " ", "\f" >>,
                     << "\n" >> \o Fill(PHRASE_BAD_FAITH, 30) \o << "\n", " " >>
                         \o Fill(PHRASE_BAD_FAITH, 25) \o << " ", "\n" >> >>] >>

\* Nine chunks, more than TOP_K.
CORPUS_ESSAYS == build_corpus(DATA_ESSAYS)

\* Two chunks, fewer than TOP_K: every search pads its result.
CORPUS_NOTES == build_corpus(DATA_NOTES)

\* An index with no vector in it.  ingest.py's main refuses to write one, but
\* load_index reads whatever the directory holds and makes no such test.
CORPUS_EMPTY == << >>

\* The index directories a deployment may hold, by name.
INDEX_DIRS == { "essays", "notes", "empty" }

\* load_index: the chunk list read from chunks.json of that directory.
load_index(dir) ==
    CASE dir = "essays" -> CORPUS_ESSAYS
      [] dir = "notes"  -> CORPUS_NOTES
      [] dir = "empty"  -> CORPUS_EMPTY

(***************************************************************************)
(* index.search(q, TOP_K): the embedding model and the index are external, *)
(* so the result is any one faiss can return for an index of n vectors:    *)
(* TOP_K slots, the min(TOP_K, n) nearest neighbours first, by descending  *)
(* score, then slots with label -1 and the lowest float as score.          *)
(***************************************************************************)
\* Stands for -3.4028235e38, the score of a slot with label -1.
NEG_FLT_MAX == -2147483647

\* The scores a search draws from, in thousandths, descending.
SCORE_LADDER == << 950, 900, 800, 700, 600, 500, 400, 300, 250, 249, 100, -50 >>

\* The search whose best neighbour has score SCORE_LADDER[start] and label `first`
\* (labels count from 0), over an index of n vectors.
SearchResult(n, start, first) ==
    LET valid == IF n < TOP_K THEN n ELSE TOP_K
        rung(i) == IF start + i - 1 < Len(SCORE_LADDER) THEN start + i - 1
                   ELSE Len(SCORE_LADDER)
    IN  [scores |-> [i \in 1..TOP_K |-> IF i <= valid THEN SCORE_LADDER[rung(i)]
                                        ELSE NEG_FLT_MAX],
         ids    |-> [i \in 1..TOP_K |-> IF i <= valid THEN (first + i - 1) % n ELSE -1]]

\* Bounds of the searches enumerated: the first rung and the first label.
MaxStart == 12
MaxFirst == 8

SearchResults(n) ==
    IF n = 0 THEN { SearchResult(0, 1, 0) }
    ELSE { SearchResult(n, start, first) :
               start \in 1..MaxStart, first \in { f \in 0..MaxFirst : f < n } }

(***************************************************************************)
(* rag.py: retrieve, build_context, refuse.                                *)
(***************************************************************************)
\* Mutant: a score equal to MIN_SCORE is filtered too.
KeepSlot_strict(score, idx) == ~(idx = -1) /\ ~(score <= MIN_SCORE)

\* The two `continue` tests of retrieve's loop: the slot is kept.
KeepSlot(score, idx) == ~(idx = -1) /\ ~(score < MIN_SCORE)

RECURSIVE RetrieveResults(_, _, _)
RetrieveResults(scores, ids, chunks_) ==
    IF scores = << >> \/ ids = << >> THEN << >>
    ELSE LET rest == RetrieveResults(Tail(scores), Tail(ids), chunks_)
         IN  IF KeepSlot(scores[1], ids[1])
             THEN LET item == chunks_[ids[1] + 1]
                  IN  << [score |-> scores[1], chunk |-> item.chunk,
                          source |-> item.source, page |-> item.page] >> \o rest
             ELSE rest

\* best = float(scores[0][0]) if len(scores[0]) else 0.0
BestScore(scores) == IF Len(scores) # 0 THEN scores[1] ELSE 0

retrieve(search, chunks_) ==
    [results |-> RetrieveResults(search.scores, search.ids, chunks_),
     best    |-> BestScore(search.scores)]

Snippet(p) ==
    << "[" >> \o p.source \o << " ", "p", "." >> \o str(p.page) \o << "]", " " >> \o p.chunk

\* The loop of build_context from running total `total`: context_parts.
RECURSIVE ContextParts(_, _)
ContextParts(passages_, total) ==
    IF passages_ = << >> THEN << >>
    ELSE LET snippet == Snippet(passages_[1])
         IN  IF total + Len(snippet) > MAX_CONTEXT_CHARS THEN << >>
             ELSE << snippet >> \o ContextParts(Tail(passages_), total + Len(snippet))

build_context(passages_) == join(<< "\n", "\n" >>, ContextParts(passages_, 0))

refuse == REFUSAL_TEXT

(***************************************************************************)
(* rag.py: the generator.  SYSTEM_RULES_REFUSAL is the sentence the        *)
(* REFUSAL RULE of SYSTEM_RULES tells the model to answer with.            *)
(***************************************************************************)
SYSTEM_RULES_REFUSAL ==
    << "I"," ","c","a","n","n","o","t"," ","a","n","s","w","e","r"," ","t","h","i","s"," ","q","u",
       "e","s","t","i","o","n"," ","w","i","t","h","i","n"," ","t","h","e"," ","c","o","n","s","t",
       "r","a","i","n","t","s"," ","o","f"," ","t","h","i","s"," ","a","g","e","n","t","."," ","T",
       "h","e"," ","a","n","s","w","e","r"," ","i","s"," ","n","o","t"," ","s","u","p","p","o","r",
       "t","e","d"," ","b","y"," ","t","h","e"," ","p","r","o","v","i","d","e","d"," ","c","o","r",
       "p","u","s","." >>

REPLY_ANSWER ==
    << "[","S","E","C","T","I","O","N"," ","1","]"," ","E","x","p","l","a","n","a","t","i","o","n",
       "\n","\"","M","a","n"," ","i","s"," ","c","o","n","d","e","m","n","e","d"," ","t","o"," ",
       "b","e"," ","f","r","e","e","\""," ","[","s","a","r","t","r","e",".","p","d","f"," ","p",
       ".","1","0","]",".","\n","\n","[","S","E","C","T","I","O","N"," ","2","]"," ","Q","u","e",
       "s","t","i","o","n",":","\n","W","h","o"," ","c","h","o","s","e"," ","f","o","r"," ","y",
       "o","u"," ","t","o","d","a","y","?" >>

\* Bodies the generation service can return in "response", before generate_answer
\* strips them.
GeneratorReplies ==
    { REPLY_ANSWER,
      REFUSAL_TEXT,
      << " " >> \o REFUSAL_TEXT \o << "\n" >>,
      REFUSAL_TEXT \o << "\f" >>,
      SYSTEM_RULES_REFUSAL }

\* What requests.post and raise_for_status raise, by class name.
FAULT_TIMEOUT ==
    << "T","i","m","e","o","u","t" >>

FAULT_CONNECTION ==
    << "C","o","n","n","e","c","t","i","o","n","E","r","r","o","r" >>

FAULT_HTTP ==
    << "H","T","T","P","E","r","r","o","r" >>

GeneratorFaults == { FAULT_TIMEOUT, FAULT_CONNECTION, FAULT_HTTP }

(***************************************************************************)
(* app.py: what the page shows.  The screen is the list of elements the    *)
(* script run has written, each with the container it was written in.      *)
(***************************************************************************)
FLT_MAX_TEXT ==
    << "-","3","4","0","2","8","2","3","4","6","6","3","8","5","2","8","8","5","9","8","1","1","7",
       "0","4","1","8","3","4","8","4","5","1","6","9","2","5","4","4","0",".","0","0","0" >>

LABEL_RETRIEVAL_SCORE ==
    << "R","e","t","r","i","e","v","a","l"," ","s","c","o","r","e" >>

LABEL_BEST ==
    << "B","e","s","t"," ","s","c","o","r","e",":"," ","*","*" >>

LABEL_THRESHOLD ==
    << "T","h","r","e","s","h","o","l","d",":"," ","*","*" >>

LABEL_SOURCES_USED ==
    << "S","o","u","r","c","e","s"," ","u","s","e","d" >>

LABEL_SCORE_OPEN ==
    << " ","(","s","c","o","r","e"," " >>

ANSWER_BOX_OPEN ==
    << "\n"," "," "," "," "," "," "," "," "," "," "," "," ","<","d","i","v"," ","c","l","a","s",
       "s","=","\"","a","n","s","w","e","r","-","b","o","x","\"",">","\n"," "," "," "," "," "," ",
       " "," "," "," "," "," " >>

ANSWER_BOX_CLOSE ==
    << "\n"," "," "," "," "," "," "," "," "," "," "," "," ","<","/","d","i","v",">","\n"," "," ",
       " "," "," "," "," "," "," "," "," "," " >>

SOURCE_BOX_OPEN ==
    << "<","d","i","v"," ","c","l","a","s","s","=","\"","s","o","u","r","c","e","-","b","o","x",
       "\"",">" >>

SOURCE_BOX_CLOSE ==
    << "<","/","d","i","v",">" >>

Element(widget, where, body) == [widget |-> widget, where |-> where, body |-> body]

\* f"{x:.3f}" for a score in thousandths.
Format3(x) ==
    IF x = NEG_FLT_MAX THEN FLT_MAX_TEXT
    ELSE LET a == IF x < 0 THEN -x ELSE x
             frac == a % 1000
         IN  (IF x < 0 THEN << "-" >> ELSE << >>)
                 \o str(a \div 1000) \o << "." >>
                 \o << DIGITS[(frac \div 100) + 1], DIGITS[((frac \div 10) % 10) + 1],
                       DIGITS[(frac % 10) + 1] >>

RefusalBox(where) == Element("error", where, refuse)

\* Mutant: the refusal is written before the exception is shown.
FaultView_with_refusal(fault) ==
    << RefusalBox("main"), Element("exception", "main", fault) >>

\* The page's box for an exception no code catches.
FaultView(fault) == << Element("exception", "main", fault) >>

RetrievalInfo(best_) ==
    << Element("subheader", "col2", LABEL_RETRIEVAL_SCORE),
       Element("write", "col2", LABEL_BEST \o Format3(best_) \o << "*", "*" >>),
       Element("write", "col2", LABEL_THRESHOLD \o Format3(MIN_SCORE) \o << "*", "*" >>) >>

SourceLine(p) ==
    << "-", " " >> \o p.source \o << " ", "p", "." >> \o str(p.page)
        \o LABEL_SCORE_OPEN \o Format3(p.score) \o << ")" >>

AnswerView(answer_, passages_, context_) ==
    << Element("markdown", "col1", ANSWER_BOX_OPEN \o answer_ \o ANSWER_BOX_CLOSE),
       Element("subheader", "col2", LABEL_SOURCES_USED),
       Element("markdown", "col2", SOURCE_BOX_OPEN) >>
        \o [i \in 1..Len(passages_) |-> Element("write", "col2", SourceLine(passages_[i]))]
        \o << Element("markdown", "col2", SOURCE_BOX_CLOSE),
              Element("text", "expander", context_) >>

(***************************************************************************)
(* app.py: the questions typed in the text input.                          *)
(***************************************************************************)
Q_ABANDONMENT ==
    << "W","h","a","t"," ","d","o","e","s"," ","S","a","r","t","r","e"," ","m","e","a","n"," ","b",
       "y"," ","a","b","a","n","d","o","n","m","e","n","t","?" >>

Q_COPE ==
    << "H","o","w"," ","d","o"," ","I"," ","c","o","p","e"," ","w","i","t","h"," ","a","n","x","i",
       "e","t","y"," ","u","s","i","n","g"," ","e","x","i","s","t","e","n","t","i","a","l","i","s",
       "m","?" >>

Q_COMPARE ==
    << "C","o","m","p","a","r","e"," ","e","x","i","s","t","e","n","t","i","a","l","i","s","m"," ",
       "t","o"," ","B","u","d","d","h","i","s","m" >>

Q_BAD_FAITH ==
    << "W","h","a","t"," ","i","s"," ","b","a","d"," ","f","a","i","t","h","?" >>

Q_FRANCE ==
    << "W","h","a","t"," ","i","s"," ","t","h","e"," ","c","a","p","i","t","a","l"," ","o","f"," ",
       "F","r","a","n","c","e","?" >>

Q_EXIST ==
    << "W","h","a","t"," ","i","s"," ","i","t"," ","t","o"," ","e","x","i","s","t","?" >>

Q_FIVE_TERMS ==
    << "H","o","w"," ","d","o"," ","f","r","e","e","d","o","m",","," ","a","n","g","u","i","s","h",
       ","," ","a","u","t","h","e","n","t","i","c","i","t","y"," ","a","n","d"," ","a","b","a","n",
       "d","o","n","m","e","n","t"," ","r","e","l","a","t","e"," ","t","o"," ","r","e","s","p","o",
       "n","s","i","b","i","l","i","t","y","?" >>

Q_BLANK ==
    << " "," "," " >>

Q_CAMUS ==
    << "W","h","a","t"," ","d","i","d"," ","C","a","m","u","s"," ","s","a","y"," ","a","b","o","u",
       "t"," ","S","i","s","y","p","h","u","s","?" >>

Q_UPPER_VS ==
    << "S","A","R","T","R","E"," ","V","S"," ","C","A","M","U","S" >>

Q_SAID ==
    << "W","h","a","t"," ","i","s"," ","s","a","i","d"," ","a","b","o","u","t"," ","e","s","s","e",
       "n","c","e","?" >>

Q_WELL_BEING ==
    << "I","s"," ","w","e","l","l","-","b","e","i","n","g"," ","p","a","r","t"," ","o","f"," ","b",
       "e","i","n","g","-","f","o","r","-","i","t","s","e","l","f","?" >>

Q_SILENCE ==
    << "W","h","a","t"," ","i","s"," ","t","h","e"," ","s","i","l","e","n","c","e"," ","o","f"," ",
       "t","h","e"," ","w","o","r","l","d","?" >>

Q_SHOULD_I ==
    << "S","h","o","u","l","d"," ","I"," ","c","h","o","o","s","e"," ","f","r","e","e","d","o","m",
       " ","o","v","e","r"," ","b","a","d"," ","f","a","i","t","h","?" >>

Queries ==
    { Q_ABANDONMENT,
      Q_COPE,
      Q_COMPARE,
      Q_BAD_FAITH,
      Q_FRANCE,
      Q_EXIST,
      Q_FIVE_TERMS,
      Q_BLANK,
      Q_CAMUS,
      Q_UPPER_VS,
      Q_SAID,
      Q_WELL_BEING,
      Q_SILENCE,
      Q_SHOULD_I }

(***************************************************************************)
(* app.py: one browser session.  A press of "Ask" runs the script from the *)
(* top: every name of the run is bound afresh and the page is redrawn.     *)
(* The run blocks twice on an external service: in retrieve, on the        *)
(* embedding model and the index search, and in generate_answer, on the    *)
(* generation service.  An action is the code between two such waits.      *)
(***************************************************************************)
VARIABLES
    index_dir,  \* the index directory on disk, read once by init()
    query,      \* the text input
    found,      \* scores, ids = index.search(q, TOP_K): row 0 of each
    pc,         \* where the run is: idle, retrieve, generate, refused, answered, error
    passages,   \* retrieve's ranked list
    best,       \* retrieve's best score
    context,    \* build_context's text, sent to the generator
    answer,     \* generate_answer's return value
    screen,     \* the elements the run has written to the page
    calls       \* the calls the run has made into rag.py, in order

vars == << index_dir, query, found, pc, passages, best, context, answer, screen, calls >>

\* index, chunks, model = init(): the cached chunk list.
chunks == load_index(index_dir)

\* No search made yet in this run.
NO_SEARCH == [scores |-> << >>, ids |-> << >>]

\* The run is over: st.stop(), the end of the script, or an uncaught exception.
Terminal == { "refused", "answered", "error" }

\* Mutant: the comparison inverted, the test of the list forgotten.
ScoreGateRefuses_inverted(best_, passages_) == best_ > MIN_SCORE

\* best < MIN_SCORE or len(passages) == 0
ScoreGateRefuses(best_, passages_) == best_ < MIN_SCORE \/ Len(passages_) = 0

\* answer.strip() == refuse().strip()
IsSelfRefusal(answer_) == strip(answer_) = strip(refuse)

Init ==
    /\ index_dir \in INDEX_DIRS
    /\ query = << >>
    /\ found = NO_SEARCH
    /\ pc = "idle"
    /\ passages = << >>
    /\ best = 0
    /\ context = << >>
    /\ answer = << >>
    /\ screen = << >>
    /\ calls = << >>

\* The text input is set to q (edited, or entered again): the script reruns with
\* the button not pressed and draws the input alone.
EditQuery(q) ==
    /\ pc \in { "idle" } \cup Terminal
    /\ query' = q
    /\ found' = NO_SEARCH
    /\ pc' = "idle"
    /\ passages' = << >>
    /\ best' = 0
    /\ context' = << >>
    /\ answer' = << >>
    /\ screen' = << >>
    /\ calls' = << >>
    /\ UNCHANGED index_dir

\* "Ask" is pressed: the script up to the call of retrieve.  (A press on the page
\* of a finished run starts the same run as a press on the idle page with the
\* same text; the model takes it from the idle page.)
Ask ==
    /\ pc = "idle"
    /\ passages' = << >>
    /\ best' = 0
    /\ context' = << >>
    /\ answer' = << >>
    /\ found' = NO_SEARCH
    /\ UNCHANGED << index_dir, query >>
    /\ IF strip(query) = << >>
       THEN /\ pc' = "idle"
            /\ screen' = << >>
            /\ calls' = << >>
       ELSE IF should_refuse_query(query, None)
       THEN /\ pc' = "refused"
            /\ screen' = << RefusalBox("main") >>
            /\ calls' = should_refuse_query_calls(query, None) \o << "refuse" >>
       ELSE /\ pc' = "retrieve"
            /\ screen' = << >>
            /\ calls' = should_refuse_query_calls(query, None) \o << "retrieve" >>

\* The index search returns: the rest of retrieve, the score column, the score
\* check, Gate 2, build_context, and generate_answer up to its request.
Retrieve(search) ==
    /\ pc = "retrieve"
    /\ found' = search
    /\ LET r == retrieve(search, chunks)
       IN  /\ passages' = r.results
           /\ best' = r.best
           /\ IF ScoreGateRefuses(r.best, r.results)
              THEN /\ pc' = "refused"
                   /\ screen' = screen \o RetrievalInfo(r.best) \o << RefusalBox("col2") >>
                   /\ calls' = calls \o << "refuse" >>
                   /\ context' = context
              ELSE IF should_refuse_query(query, Some(r.results))
              THEN /\ pc' = "refused"
                   /\ screen' = screen \o RetrievalInfo(r.best) \o << RefusalBox("main") >>
                   /\ calls' = calls \o should_refuse_query_calls(query, Some(r.results))
                                     \o << "refuse" >>
                   /\ context' = context
              ELSE /\ pc' = "generate"
                   /\ screen' = screen \o RetrievalInfo(r.best)
                   /\ calls' = calls \o should_refuse_query_calls(query, Some(r.results))
                                     \o << "build_context", "generate_answer" >>
                   /\ context' = build_context(r.results)
    /\ UNCHANGED << index_dir, query, answer >>

\* The generation service answers with `body`: generate_answer returns it stripped,
\* then Gate 3 and the answer, the sources and the context.
GeneratorReply(body) ==
    /\ pc = "generate"
    /\ answer' = strip(body)
    /\ IF IsSelfRefusal(strip(body))
       THEN /\ pc' = "refused"
            /\ screen' = screen \o << RefusalBox("main") >>
            /\ calls' = calls \o << "refuse", "refuse" >>
       ELSE /\ pc' = "answered"
            /\ screen' = screen \o AnswerView(strip(body), passages, context)
            /\ calls' = calls \o << "refuse" >>
    /\ UNCHANGED << index_dir, query, found, passages, best, context >>

\* requests.post or raise_for_status raises: nothing catches it, the run ends and
\* the page shows the exception.
GeneratorFault(fault) ==
    /\ pc = "generate"
    /\ pc' = "error"
    /\ screen' = screen \o FaultView(fault)
    /\ UNCHANGED << index_dir, query, found, passages, best, context, answer, calls >>

Next ==
    \/ \E q \in Queries : EditQuery(q)
    \/ Ask
    \/ \E search \in SearchResults(Len(chunks)) : Retrieve(search)
    \/ \E body \in GeneratorReplies : GeneratorReply(body)
    \/ \E fault \in GeneratorFaults : GeneratorFault(fault)

Spec == Init /\ [][Next]_vars

(***************************************************************************)
(* Properties.                                                             *)
(***************************************************************************)
Called(f) == \E i \in DOMAIN calls : calls[i] = f

TimesCalled(f) == Cardinality({ i \in DOMAIN calls : calls[i] = f })

\* retrieve has returned in this run.
Retrieved == Called("retrieve") /\ pc # "retrieve"

\* The refusal text is somewhere on the page.
RefusalShown == \E i \in DOMAIN screen : screen[i].body = REFUSAL_TEXT

\* The lines written under "Sources used".
ListedSources ==
    LET lines == SelectSeq(screen, LAMBDA e : e.widget = "write" /\ Head(e.body) = "-")
    IN  [i \in 1..Len(lines) |-> lines[i].body]

\* The number of passages whose snippet build_context put in the context.
IncludedCount == Len(ContextParts(passages, 0))

\* C1: a run ends in "answered" only after the four gates passed, in order (no
\* banned pattern and an allowed-domain pattern; best >= MIN_SCORE and a non-empty
\* list; the support verifier true; the stripped reply other than the refusal
\* text), and a finished run in which any one of the four failed is "refused".
C1_AnswerOnlyThroughAllGates ==
    /\ pc = "answered" =>
          /\ ~has_banned_terms(query) /\ in_allowed_domain(query)
          /\ best >= MIN_SCORE /\ Len(passages) > 0
          /\ query_supported_by_context(query, passages)
          /\ strip(answer) # REFUSAL_TEXT
          /\ calls = << "should_refuse_query", "retrieve", "should_refuse_query",
                        "query_supported_by_context", "build_context",
                        "generate_answer", "refuse" >>
    /\ pc \in Terminal =>
          /\ (has_banned_terms(query) \/ ~in_allowed_domain(query)) => pc = "refused"
          /\ (Retrieved /\ (best < MIN_SCORE \/ Len(passages) = 0)) => pc = "refused"
          /\ (Retrieved /\ ~query_supported_by_context(query, passages)) => pc = "refused"
          /\ (Called("generate_answer") /\ strip(answer) = REFUSAL_TEXT) => pc = "refused"

\* C1 witness: an answer drawn from several passages.
C1_Witness == pc = "answered" /\ Len(passages) >= 2 /\ ~RefusalShown

\* C2: the text build_context returns is at most MAX_CONTEXT_CHARS long, its
\* separators counted.
C2_ContextWithinBudget ==
    Called("build_context") => Len(context) <= MAX_CONTEXT_CHARS

\* C3: a refused run shows the same page whichever gate refused.  The page of a
\* refusal at the topic gate is the refusal box alone, so any two refused runs
\* show the same page exactly when every refused run shows that page.
C3_RefusalPageUniform ==
    pc = "refused" => screen = << RefusalBox("main") >>

\* C4: a reply that is the refusal sentence of SYSTEM_RULES ends the run in
\* "refused", never in "answered".
C4_PromptRefusalIsRefused ==
    (pc \in Terminal /\ Called("generate_answer") /\ answer = SYSTEM_RULES_REFUSAL)
        => pc = "refused"

\* C5: once retrieve returns a best score below MIN_SCORE or an empty list, the
\* run is refused at the score check: the support verifier, build_context and
\* generate_answer are not called in it.
C5_ScoreGateStopsRun ==
    (Retrieved /\ (best < MIN_SCORE \/ Len(passages) = 0)) =>
        /\ pc = "refused"
        /\ screen[Len(screen)] = RefusalBox("col2")
        /\ ~Called("query_supported_by_context")
        /\ ~Called("build_context")
        /\ ~Called("generate_answer")

\* C5 witness: a run refused at the score check.
C5_Witness ==
    Retrieved /\ best < MIN_SCORE /\ pc = "refused" /\ found.ids[1] # -1

\* The values of should_refuse_query's passages argument tried for the session's
\* index: absent, empty, every chunk, and each chunk alone.
PassageArgs ==
    LET hit(i) == [score |-> SCORE_LADDER[1], chunk |-> chunks[i].chunk,
                   source |-> chunks[i].source, page |-> chunks[i].page]
    IN  { None, Some(<< >>), Some([i \in 1..Len(chunks) |-> hit(i)]) }
            \cup { Some(<< hit(i) >>) : i \in 1..Len(chunks) }

\* C6: for a query with a banned pattern, should_refuse_query is true whatever
\* its passages argument, and the run is refused with the refusal text alone
\* without a call of retrieve.
C6_BannedAlwaysRefused ==
    has_banned_terms(query) =>
        /\ \A p \in PassageArgs : should_refuse_query(query, p)
        /\ pc \in { "idle", "refused" }
        /\ pc = "refused" => (screen = << RefusalBox("main") >> /\ ~Called("retrieve"))

\* C6 witness: a banned query in the allowed domain, which passages of the index
\* support, refused.
C6_Witness ==
    /\ pc = "refused"
    /\ has_banned_terms(query)
    /\ in_allowed_domain(query)
    /\ \E p \in PassageArgs : p.some /\ query_supported_by_context(query, p.val)

\* C7: a failed call of the generation service ends the run in "error": the page
\* shows the exception, neither the refusal text nor an answer nor sources, and
\* the generator was called once.
C7_GeneratorFaultIsError ==
    pc = "error" =>
        /\ screen[Len(screen)].widget = "exception"
        /\ ~RefusalShown
        /\ \A i \in DOMAIN screen : screen[i].widget \notin { "error", "markdown", "text" }
        /\ answer = << >>
        /\ TimesCalled("generate_answer") = 1

\* C7 witness: a run ended by a timeout of the generation service.
C7_Witness == pc = "error" /\ screen[Len(screen)].body = FAULT_TIMEOUT

\* The search gave no neighbour: every slot has label -1.
NoNeighbours == \A i \in DOMAIN found.ids : found.ids[i] = -1

\* C8: when the search gives no neighbour, retrieve returns an empty list and a
\* best score of 0.0.
C8_NoNeighboursBestZero ==
    (Retrieved /\ NoNeighbours) => (passages = << >> /\ best = 0)

\* The proviso of C9: scores descending, valid labels ahead of the -1 padding.
SearchOrdered ==
    /\ \A i \in 1..(Len(found.scores) - 1) : found.scores[i] >= found.scores[i + 1]
    /\ \A i \in 1..(Len(found.ids) - 1) : found.ids[i] = -1 => found.ids[i + 1] = -1

\* C9: after retrieve, for an ordered search, the list is non-empty exactly when
\* best >= MIN_SCORE, every passage has score >= MIN_SCORE, and the score gate
\* never passes with the top neighbour filtered out.
C9_ListAgreesWithBest ==
    (Retrieved /\ SearchOrdered) =>
        /\ (Len(passages) > 0) <=> (best >= MIN_SCORE)
        /\ \A i \in DOMAIN passages : passages[i].score >= MIN_SCORE
        /\ (best >= MIN_SCORE /\ Len(passages) > 0) =>
               (found.ids[1] # -1 /\ found.scores[1] >= MIN_SCORE
                   /\ passages[1].score = found.scores[1])

\* C9 witness: the best score sits on the threshold and the next one below it.
C9_Witness ==
    /\ Retrieved
    /\ best = MIN_SCORE
    /\ Len(passages) = 1
    /\ found.scores[2] < MIN_SCORE /\ found.ids[2] # -1

\* C10: in an answered run the sources listed are exactly the passages whose
\* snippets are in the context sent to the generator, and that context is not
\* empty.
C10_SourcesAreContextPassages ==
    pc = "answered" =>
        /\ context # << >>
        /\ ListedSources = [i \in 1..IncludedCount |-> SourceLine(passages[i])]
====
